---- MODULE Spec2Model ----
(***************************************************************************)
(* Streaming pitch/volume analysis core of the Instrument Analyzer GUI     *)
(* (instrument_analyzer_gui_clean.pyw).                                    *)
(*                                                                         *)
(* Three kinds of activity share the object's fields:                      *)
(*   - the Tk main thread, which runs start_analysis and stop_analysis;    *)
(*   - the audio thread of the input stream, which runs audio_callback     *)
(*     once per delivered block while the stream is active;                *)
(*   - the analysis threads created by start_analysis, each running        *)
(*     _audio_loop.                                                        *)
(* Every step below is one operation that CPython executes without         *)
(* releasing the interpreter lock (one deque call, one attribute store);   *)
(* steps of different threads interleave freely.                           *)
(*                                                                         *)
(* Samples carry identity markers: the k-th sample ever delivered by the   *)
(* stream is the number k.  Sample counts are scaled down (CHUNK stands    *)
(* for the 1024 of the source); every length of the source is kept as the  *)
(* same multiple of CHUNK.  Frequencies are integers in units of 1/200 Hz, *)
(* voicing probabilities are in hundredths.                                *)
(***************************************************************************)
EXTENDS Integers, Sequences, FiniteSets, TLC

\* ------------------------------------------------------------- bounds
\* Sub-frames of one pyin result when the estimator is examined alone.
MaxFrames == 3
\* Samples per delivered block (1024 in the source, scaled).
CHUNK == 2
\* Samples the stream may deliver beyond one full buffer.
ExtraSamples == 3
\* Calls of start_analysis / stop_analysis the user makes when sessions are
\* restarted.
MaxCalls == 3
\* Length bound of each display series (1291 in the source, scaled).
HistoryBlocks == 2

\* --------------------------------------------------- program constants
FRAME_LENGTH == CHUNK * 2
HOP_LENGTH == CHUNK
BUFFER_CHUNKS == 10
CAPACITY == CHUNK * BUFFER_CHUNKS
HISTORY_MAXLEN == HistoryBlocks
\* Frequencies are integers in units of 1/200 Hz: a hundredth of a hertz
\* (the table's precision) halved once more for the median of two values.
Hz == 2 * 100
PYIN_PROB_THRESHOLD == 50
BAND_LOW == 75
BAND_HIGH == 1200
CONFIDENCE_K == 10

\* The runs explored: one session (a start and a stop) fed until the buffer
\* has overflowed, and restarted sessions fed a frame and a block.
Budgets ==
    { [calls |-> 1 + 1, samples |-> CAPACITY + ExtraSamples],
      [calls |-> MaxCalls, samples |-> FRAME_LENGTH + CHUNK] }
MaxThreads == (MaxCalls + 1) \div 2
Threads == 1..MaxThreads
\* The GUI-update thread started together with analysis thread t.
GuiOf(t) == MaxThreads + t
GuiThreads == {GuiOf(t) : t \in Threads}
BlockSizes == {1, CHUNK}
\* RMS of a delivered block before gain, in units of 1/10000.
BlockRms == {205}

None == "None"
\* The input devices _populate_devices may find (named by index).
Devices == {"0"}
NA == "N/A"

VARIABLES
    device_index,     \* selected input device, or None
    stream,           \* "none" | "open" (constructed, not delivering) | "active"
    is_running,
    stop_event,       \* _stop_event: TRUE when set
    status,           \* text of connection_label
    dialogs,          \* error dialogs shown by messagebox.showerror
    audio_buffer,     \* deque(maxlen = CAPACITY) of sample markers
    pushed,           \* samples delivered by the stream so far
    time_data, volume_data, frequency_data,   \* lengths of the display series
    current_f0, current_note, note_confidence, current_volume,
    mainpc,           \* position of the Tk main thread
    calls,            \* user calls made so far
    budget,           \* the calls and samples of this run (never changes)
    lastCall,         \* what the latest user call was and how it ended
    nthreads,         \* analysis threads created so far
    pc,               \* position of each analysis thread
    segment,          \* each thread's latest window (local of _audio_loop)
    popsLeft,         \* remaining iterations of the discard loop
    result,           \* what _analyze_audio_segment is about to publish
    foreign,          \* history: samples left the buffer other than by the
                      \* thread's own discard since its latest window
    stopSeen,         \* history: stop_analysis ran since the thread last
                      \* evaluated its while condition
    call              \* the function call under examination: its arguments
                      \* and, once it has returned, its value

progVars == <<device_index, stream, is_running, stop_event, status, dialogs,
              audio_buffer, pushed, time_data, volume_data, frequency_data,
              current_f0, current_note, note_confidence, current_volume,
              nthreads, pc, segment, popsLeft, result>>
vars == <<device_index, stream, is_running, stop_event, status, dialogs,
          audio_buffer, pushed, time_data, volume_data, frequency_data,
          current_f0, current_note, note_confidence, current_volume,
          mainpc, calls, budget, lastCall, nthreads, pc, segment, popsLeft, result,
          foreign, stopSeen, call>>

\* ------------------------------------------------------------ helpers
Min(a, b) == IF a <= b THEN a ELSE b
Max(a, b) == IF a >= b THEN a ELSE b
Abs(a) == IF a >= 0 THEN a ELSE 0 - a

\* A faulty bounded extend that keeps the oldest samples and drops the
\* newest; stands in for DequeExtend to show that C1 tells them apart.
DequeDropNewest(buf, items, maxlen) ==
    SubSeq(buf \o items, 1, Min(Len(buf \o items), maxlen))
\* deque.extend on a deque with maxlen: append, then drop from the left.
DequeExtend(buf, items, maxlen) ==
    LET all == buf \o items
    IN  IF Len(all) <= maxlen THEN all
        ELSE SubSeq(all, Len(all) - maxlen + 1, Len(all))

\* deque.append on a series tracked by its length.
DequeAppendLen(n, maxlen) == Min(n + 1, maxlen)

\* The markers of a block of `size` samples delivered after `n` samples.
Block(n, size) == [i \in 1..size |-> n + i]

\* --------------------------------------------------- note mapping
\* Note data is what json.load returned: `wellformed` tells whether it
\* has the "note_frequencies" mapping with a frequency in every entry;
\* note_frequencies holds the entries that have a frequency and names, in
\* the mapping's iteration order.
\* The table load_note_frequencies falls back to, in iteration order.
DefaultNoteTable ==
    [wellformed |-> TRUE,
     note_frequencies |->
        << [western |-> "C4", frequency |-> 52326],
           [western |-> "D4", frequency |-> 58732],
           [western |-> "E4", frequency |-> 65926],
           [western |-> "F4", frequency |-> 69846],
           [western |-> "G4", frequency |-> 78400],
           [western |-> "A4", frequency |-> 88000],
           [western |-> "B4", frequency |-> 98776] >>]

\* The scan of frequency_to_note over the first n entries: the running
\* minimum, replaced only by a strictly smaller difference.
RECURSIVE ScanNotesKeepLast(_, _, _)
\* A faulty scan that replaces the running minimum on an equal difference
\* too; stands in for ScanNotes to show that C16 tells them apart.
ScanNotesKeepLast(table, frequency, n) ==
    IF n = 0 THEN [min_diff |-> -1, note |-> NA, freq |-> 0]
    ELSE LET prev == ScanNotesKeepLast(table, frequency, n - 1)
             diff == Abs(table[n].frequency - frequency)
         IN  IF prev.min_diff = -1 \/ diff <= prev.min_diff
             THEN [min_diff |-> diff, note |-> table[n].western,
                   freq |-> table[n].frequency]
             ELSE prev
RECURSIVE ScanNotes(_, _, _)
ScanNotes(table, frequency, n) ==
    IF n = 0 THEN [min_diff |-> -1, note |-> NA, freq |-> 0]
    ELSE LET prev == ScanNotes(table, frequency, n - 1)
             diff == Abs(table[n].frequency - frequency)
         IN  IF prev.min_diff = -1 \/ diff < prev.min_diff
             THEN [min_diff |-> diff, note |-> table[n].western,
                   freq |-> table[n].frequency]
             ELSE prev

\* A faulty mapper that looks into the note data before it tests the
\* frequency; stands in for frequency_to_note to show that C19 tells them
\* apart.
frequency_to_note_reads_first(frequency, note_data) ==
    IF ~note_data.wellformed THEN [raised |-> TRUE, note |-> NA, freq |-> 0]
    ELSE IF frequency <= 0 THEN [raised |-> FALSE, note |-> NA, freq |-> 0]
    ELSE LET r == ScanNotes(note_data.note_frequencies, frequency,
                            Len(note_data.note_frequencies))
         IN  [raised |-> FALSE, note |-> r.note, freq |-> r.freq]
\* frequency_to_note: (closest_note, closest_freq); min_diff = -1 is inf.
\* Reading note data that is not well formed raises (KeyError/TypeError).
frequency_to_note(frequency, note_data) ==
    IF frequency <= 0 THEN [raised |-> FALSE, note |-> NA, freq |-> 0]
    ELSE IF ~note_data.wellformed THEN [raised |-> TRUE, note |-> NA, freq |-> 0]
    ELSE LET r == ScanNotes(note_data.note_frequencies, frequency,
                            Len(note_data.note_frequencies))
         IN  [raised |-> FALSE, note |-> r.note, freq |-> r.freq]

\* ------------------------------------------------- pitch estimation
\* A confidence is the exact fraction num / den of a percentage.
Unvoiced == [f0 |-> 0, note |-> NA, conf |-> [num |-> 0, den |-> 1],
             failed |-> FALSE]

RECURSIVE InsertSorted(_, _)
InsertSorted(s, x) ==
    IF s = <<>> THEN <<x>>
    ELSE IF x <= Head(s) THEN <<x>> \o s
    ELSE <<Head(s)>> \o InsertSorted(Tail(s), x)

RECURSIVE Sorted(_)
Sorted(s) == IF s = <<>> THEN <<>> ELSE InsertSorted(Sorted(Tail(s)), Head(s))

RECURSIVE Sum(_)
Sum(s) == IF s = <<>> THEN 0 ELSE Head(s) + Sum(Tail(s))
\* The mean (rounded down to 1/200 Hz), the aggregate of the older
\* variant of the analyzer; stands in for Median to show that C14 tells
\* them apart.
Mean(s) == Sum(s) \div Len(s)
\* np.median of a non-empty sequence of frequencies; the mean of the two
\* middle values is exact in units of 1/200 Hz when they are whole
\* hundredths.
Median(s) ==
    LET t == Sorted(s)
        n == Len(t)
    IN  IF n % 2 = 1 THEN t[(n + 1) \div 2]
        ELSE (t[n \div 2] + t[n \div 2 + 1]) \div 2

RECURSIVE ConfidentF0AtLeast(_)
\* A faulty filter that keeps a sub-frame whose probability equals the
\* threshold; stands in for ConfidentF0 to show that C13 tells them apart.
ConfidentF0AtLeast(frames) ==
    IF frames = <<>> THEN <<>>
    ELSE (IF Head(frames).prob >= PYIN_PROB_THRESHOLD
          THEN <<Head(frames).f0>> ELSE <<>>) \o ConfidentF0AtLeast(Tail(frames))
RECURSIVE ConfidentF0(_)
\* f0[voiced_probs > 0.5]
ConfidentF0(frames) ==
    IF frames = <<>> THEN <<>>
    ELSE (IF Head(frames).prob > PYIN_PROB_THRESHOLD
          THEN <<Head(frames).f0>> ELSE <<>>) \o ConfidentF0(Tail(frames))

\* A faulty confidence that loses only K percent per 100 percent of
\* relative distance; stands in for NoteConfidence to show that C17 tells
\* them apart.
NoteConfidenceFlat(detected_f0, closest_freq) ==
    IF closest_freq > 0
    THEN [num |-> Min(100 * closest_freq,
                      Max(0, 100 * closest_freq
                             - Abs(detected_f0 - closest_freq) * CONFIDENCE_K)),
          den |-> closest_freq]
    ELSE [num |-> 0, den |-> 1]
\* A faulty confidence without the lower clamp and growing with distance
\* below the entry; stands in for NoteConfidence to show that C18 tells
\* them apart.
NoteConfidenceSigned(detected_f0, closest_freq) ==
    IF closest_freq > 0
    THEN [num |-> Min(100 * closest_freq,
                      Max(0, 100 * closest_freq
                             - (detected_f0 - closest_freq) * 100 * CONFIDENCE_K)),
          den |-> closest_freq]
    ELSE [num |-> 0, den |-> 1]
\* A faulty band test that accepts every aggregate; stands in for InBand
\* to show that C15 tells them apart.
InBandAlways(detected_f0) == TRUE
\* 75 <= detected_f0 <= 1200
InBand(detected_f0) ==
    BAND_LOW * Hz <= detected_f0 /\ detected_f0 <= BAND_HIGH * Hz

\* min(100, max(0, 100 - freq_diff / closest_freq * 100 * K)) as a fraction
\* over closest_freq.
NoteConfidence(detected_f0, closest_freq) ==
    IF closest_freq > 0
    THEN [num |-> Min(100 * closest_freq,
                      Max(0, 100 * closest_freq
                             - Abs(detected_f0 - closest_freq) * 100 * CONFIDENCE_K)),
          den |-> closest_freq]
    ELSE [num |-> 0, den |-> 1]

\* What _analyze_audio_segment publishes for one outcome of librosa.pyin:
\* raised (pyin raised) or the per-sub-frame sequence of [f0, prob]
\* (fill_na = 0.0: an unvoiced sub-frame has f0 = 0, never NaN).
Analyze(outcome, table) ==
    IF outcome.raised
    THEN [Unvoiced EXCEPT !.failed = TRUE]
    ELSE LET confident == ConfidentF0(outcome.frames)
         IN  IF Len(outcome.frames) > 0 /\ Len(confident) > 0
             THEN LET detected_f0 == Median(confident)
                  IN  IF InBand(detected_f0)
                      THEN LET n == frequency_to_note(detected_f0, table)
                           IN  IF n.raised
                               THEN [Unvoiced EXCEPT !.failed = TRUE]
                               ELSE [f0 |-> detected_f0, note |-> n.note,
                                     conf |-> NoteConfidence(detected_f0, n.freq),
                                     failed |-> FALSE]
                      ELSE Unvoiced
             ELSE Unvoiced

\* The outcomes of librosa.pyin the analysis loop is driven with: an
\* error, a silent window, a window holding a 440 Hz tone.
PyinRaised == [raised |-> TRUE, frames |-> <<>>]
PyinOutcomes ==
    { PyinRaised,
      [raised |-> FALSE, frames |-> << [f0 |-> 0, prob |-> 1] >>],
      [raised |-> FALSE,
       frames |-> << [f0 |-> 440 * Hz, prob |-> 90], [f0 |-> 0, prob |-> 10] >>] }

\* A faulty volume without the cap at 100; stands in for Volume to show
\* that C21 tells them apart.
VolumeUncapped(rms) == (rms * 10 * 100) \div 10000
\* A faulty volume that rounds to the nearest percent instead of
\* truncating; stands in for Volume to show that C20 tells them apart.
VolumeRounded(rms) == Min(100, (rms * 10 * 100 + 5000) \div 10000)
\* audio_callback's volume: min(100, int(rms * 100)) of the block after
\* the gain of 10, for a raw RMS given in units of 1/10000.
GAIN_MULTIPLIER == 10
Volume(rms) == Min(100, (rms * GAIN_MULTIPLIER * 100) \div 10000)

\* No function call is under examination.
NoCall == [fn |-> "none", returned |-> FALSE]

\* ------------------------------------------------------------ state
InitProgram ==
    /\ device_index \in {None} \cup Devices
    /\ stream = "none"
    /\ is_running = FALSE
    /\ stop_event = FALSE
    /\ status = IF device_index = None THEN "No input devices found" ELSE "Ready"
    /\ dialogs = 0
    /\ audio_buffer = <<>>
    /\ pushed = 0
    /\ time_data = 0
    /\ volume_data = 0
    /\ frequency_data = 0
    /\ current_f0 = 0
    /\ current_note = NA
    /\ note_confidence = [num |-> 0, den |-> 1]
    /\ current_volume = 0
    /\ mainpc = "idle"
    /\ calls = 0
    /\ budget \in Budgets
    /\ lastCall = "none"
    /\ nthreads = 0
    /\ pc = [t \in Threads \cup GuiThreads |-> "none"]
    /\ segment = [t \in Threads |-> <<>>]
    /\ popsLeft = [t \in Threads |-> 0]
    /\ result = [t \in Threads |-> Unvoiced]
    /\ foreign = [t \in Threads |-> FALSE]
    /\ stopSeen = [t \in Threads |-> FALSE]

Init == InitProgram /\ call = NoCall

analysisState == <<current_f0, current_note, note_confidence, current_volume>>
history == <<time_data, volume_data, frequency_data>>
mainVars == <<mainpc, calls, budget, lastCall, call>>
threadVars == <<nthreads, pc, segment, popsLeft, result, stopSeen>>
sessionVars == <<device_index, stream, is_running, stop_event, status, dialogs>>

Alive(t) == pc[t] \notin {"none", "done"}

\* ---------------------------------------------------- audio thread
\* audio_callback for one delivered block: extend the buffer, publish the
\* block's volume.
AudioCallback(size, rms) ==
    /\ stream = "active"
    /\ pushed + size <= budget.samples
    /\ LET block == Block(pushed, size)
           evicted == Max(0, Len(audio_buffer) + size - CAPACITY)
       IN  /\ audio_buffer' = DequeExtend(audio_buffer, block, CAPACITY)
           /\ foreign' = [t \in Threads |-> foreign[t] \/ evicted > 0]
    /\ pushed' = pushed + size
    /\ current_volume' = Volume(rms)
    /\ UNCHANGED <<sessionVars, history, current_f0, current_note,
                   note_confidence, mainVars, nthreads, pc, segment, popsLeft,
                   result, stopSeen>>

\* ------------------------------------------------- Tk main thread
\* A faulty guard that lets a start through while the session runs;
\* stands in for StartIgnored to show that C5 tells them apart.
StartIgnoredUnlessNoDevice == device_index = None
\* start_analysis returns at once when the session runs or no device is
\* selected.
StartIgnored == is_running \/ device_index = None

\* A faulty except branch that shows no dialog; stands in for StartFailed
\* to show that C7 tells them apart.
StartFailedNoDialog ==
    /\ is_running' = FALSE
    /\ status' = "Start failed"
    /\ dialogs' = dialogs
    /\ mainpc' = "idle"
    /\ lastCall' = "start_failed"
\* The except branch of start_analysis: reset the flag, report, show the
\* error dialog.
StartFailed ==
    /\ is_running' = FALSE
    /\ status' = "Start failed"
    /\ dialogs' = dialogs + 1
    /\ mainpc' = "idle"
    /\ lastCall' = "start_failed"

\* start_analysis up to stream.start(): the guard, sd.InputStream(...),
\* stream.start().  The constructor or start() may raise.
StartAnalysis ==
    /\ mainpc = "idle"
    /\ calls < budget.calls
    /\ calls' = calls + 1
    /\ IF StartIgnored
       THEN /\ lastCall' = "start_ignored"
            /\ UNCHANGED <<sessionVars, mainpc>>
       ELSE \/ /\ stream' = "active"
               /\ mainpc' = "start_run"
               /\ lastCall' = "start"
               /\ UNCHANGED <<is_running, status, dialogs>>
            \/ /\ UNCHANGED stream
               /\ StartFailed
            \/ /\ stream' = "open"
               /\ StartFailed
    /\ UNCHANGED <<device_index, stop_event, audio_buffer, pushed, history,
                   analysisState, budget, call, threadVars, foreign>>

\* start_analysis: is_running = True, _stop_event.clear(), the status label.
StartRun ==
    /\ mainpc = "start_run"
    /\ is_running' = TRUE
    /\ stop_event' = FALSE
    /\ status' = "Analyzing..."
    /\ mainpc' = "start_reset"
    /\ UNCHANGED <<device_index, stream, dialogs, audio_buffer, pushed, history,
                   analysisState, calls, budget, call, lastCall, threadVars, foreign>>

\* start_analysis, data reset: the buffer and the three series are cleared.
StartReset ==
    /\ mainpc = "start_reset"
    /\ audio_buffer' = <<>>
    /\ foreign' = [t \in Threads |-> foreign[t] \/ audio_buffer # <<>>]
    /\ time_data' = 0
    /\ volume_data' = 0
    /\ frequency_data' = 0
    /\ mainpc' = "start_threads"
    /\ UNCHANGED <<sessionVars, pushed, analysisState, calls, budget, call, lastCall,
                   threadVars>>

\* start_analysis: the analysis thread and the GUI-update thread are
\* created and started; a failure
\* here (Thread.start, the animation) ends in the except branch.
StartThreads ==
    /\ mainpc = "start_threads"
    /\ \/ /\ nthreads' = nthreads + 1
          /\ pc' = [pc EXCEPT ![nthreads + 1] = "cond",
                               ![GuiOf(nthreads + 1)] = "gcond"]
          /\ mainpc' = "idle"
          /\ UNCHANGED <<is_running, status, dialogs, lastCall>>
       \/ /\ StartFailed
          /\ UNCHANGED <<nthreads, pc>>
    /\ UNCHANGED <<device_index, stream, stop_event, audio_buffer, pushed,
                   history, analysisState, calls, budget, call, segment, popsLeft,
                   result, foreign, stopSeen>>

\* A faulty guard that never returns early; stands in for StopIgnored to
\* show that C6 tells them apart.
StopNeverIgnored == FALSE
\* stop_analysis returns at once when the session does not run.
StopIgnored == ~is_running

\* stop_analysis: the guard, is_running = False, _stop_event.set().
StopAnalysis ==
    /\ mainpc = "idle"
    /\ calls < budget.calls
    /\ calls' = calls + 1
    /\ IF StopIgnored
       THEN /\ lastCall' = "stop_ignored"
            /\ UNCHANGED <<is_running, stop_event, mainpc, stopSeen>>
       ELSE /\ is_running' = FALSE
            /\ stop_event' = TRUE
            /\ mainpc' = "stop_stream"
            /\ lastCall' = "stop"
            /\ stopSeen' = [t \in Threads |-> Alive(t)]
    /\ UNCHANGED <<device_index, stream, status, dialogs, audio_buffer, pushed,
                   history, analysisState, budget, call, nthreads, pc, segment,
                   popsLeft, result, foreign>>

\* stop_analysis: stream.stop(), stream.close(), stream = None (an error of
\* the stream is logged and leaves it in place), then the status label.
StopStream ==
    /\ mainpc = "stop_stream"
    /\ IF stream = "none"
       THEN UNCHANGED stream
       ELSE \/ stream' = "none"
            \/ UNCHANGED stream
    /\ status' = "Stopped"
    /\ mainpc' = "idle"
    /\ UNCHANGED <<device_index, is_running, stop_event, dialogs, audio_buffer,
                   pushed, history, analysisState, calls, budget, call, lastCall,
                   threadVars, foreign>>

\* ------------------------------------------------ analysis threads
\* The while condition of _audio_loop.
LoopContinues == is_running /\ ~stop_event

\* A faulty test that asks for more than a frame; stands in for
\* WindowReady to show that C29 tells them apart.
WindowReadyBeyondFrame(buf) == Len(buf) > FRAME_LENGTH
\* The window is ready once the buffer holds a frame.
WindowReady(buf) == Len(buf) >= FRAME_LENGTH

\* list(self.audio_buffer)[:FRAME_LENGTH]
WindowOf(buf) == SubSeq(buf, 1, Min(Len(buf), FRAME_LENGTH))

\* A faulty discard count that drops the whole frame; stands in for
\* DiscardCount to show that C3 tells them apart.
DiscardWholeFrame(buf) == Min(Len(buf), FRAME_LENGTH)
\* range(min(len(self.audio_buffer), CHUNK))
DiscardCount(buf) == Min(Len(buf), CHUNK)

\* while self.is_running and not self._stop_event.is_set()
LoopCond(t) ==
    /\ pc[t] = "cond"
    /\ pc' = [pc EXCEPT ![t] = IF LoopContinues THEN "len" ELSE "done"]
    /\ stopSeen' = [stopSeen EXCEPT ![t] = FALSE]
    /\ UNCHANGED <<sessionVars, audio_buffer, pushed, history, analysisState,
                   mainVars, nthreads, segment, popsLeft, result, foreign>>

\* if len(self.audio_buffer) >= FRAME_LENGTH, else the sleep
CheckLen(t) ==
    /\ pc[t] = "len"
    /\ pc' = [pc EXCEPT ![t] = IF WindowReady(audio_buffer) THEN "snap" ELSE "sleep"]
    /\ UNCHANGED <<sessionVars, audio_buffer, pushed, history, analysisState,
                   mainVars, nthreads, segment, popsLeft, result, foreign,
                   stopSeen>>

\* A faulty snapshot that takes the window out of the buffer; stands in
\* for Snapshot to show that C30 tells them apart.
SnapshotRemoves(t) ==
    /\ pc[t] = "snap"
    /\ segment' = [segment EXCEPT ![t] = WindowOf(audio_buffer)]
    /\ audio_buffer' = SubSeq(audio_buffer, Len(WindowOf(audio_buffer)) + 1,
                              Len(audio_buffer))
    /\ foreign' = [foreign EXCEPT ![t] = FALSE]
    /\ pc' = [pc EXCEPT ![t] = "popn"]
    /\ UNCHANGED <<sessionVars, pushed, history, analysisState, mainVars,
                   nthreads, popsLeft, result, stopSeen>>
\* segment = np.array(list(self.audio_buffer)[:FRAME_LENGTH])
Snapshot(t) ==
    /\ pc[t] = "snap"
    /\ segment' = [segment EXCEPT ![t] = WindowOf(audio_buffer)]
    /\ foreign' = [foreign EXCEPT ![t] = FALSE]
    /\ pc' = [pc EXCEPT ![t] = "popn"]
    /\ UNCHANGED <<sessionVars, audio_buffer, pushed, history, analysisState,
                   mainVars, nthreads, popsLeft, result, stopSeen>>

\* The bound of the discard loop is computed once, before the loop.
DiscardBegin(t) ==
    /\ pc[t] = "popn"
    /\ popsLeft' = [popsLeft EXCEPT ![t] = DiscardCount(audio_buffer)]
    /\ pc' = [pc EXCEPT ![t] = IF DiscardCount(audio_buffer) = 0
                                THEN "analyze" ELSE "pop"]
    /\ UNCHANGED <<sessionVars, audio_buffer, pushed, history, analysisState,
                   mainVars, nthreads, segment, result, foreign, stopSeen>>

\* One iteration of the discard loop: popleft if the buffer is not empty.
DiscardOne(t) ==
    /\ pc[t] = "pop"
    /\ IF audio_buffer # <<>>
       THEN /\ audio_buffer' = Tail(audio_buffer)
            /\ foreign' = [u \in Threads |-> IF u = t THEN foreign[u] ELSE TRUE]
       ELSE UNCHANGED <<audio_buffer, foreign>>
    /\ popsLeft' = [popsLeft EXCEPT ![t] = @ - 1]
    /\ pc' = [pc EXCEPT ![t] = IF popsLeft[t] = 1 THEN "analyze" ELSE "pop"]
    /\ UNCHANGED <<sessionVars, pushed, history, analysisState, mainVars,
                   nthreads, segment, result, stopSeen>>

\* _analyze_audio_segment up to its first store: librosa.pyin (which
\* rejects an empty window) and the choice of what to publish.
AnalyzeSegment(t) ==
    /\ pc[t] = "analyze"
    /\ \E o \in PyinOutcomes :
          /\ segment[t] = <<>> => o.raised
          /\ result' = [result EXCEPT ![t] = Analyze(o, DefaultNoteTable)]
    /\ pc' = [pc EXCEPT ![t] = "w_f0"]
    /\ UNCHANGED <<sessionVars, audio_buffer, pushed, history, analysisState,
                   mainVars, nthreads, segment, popsLeft, foreign, stopSeen>>

\* self.current_f0 = ...
PublishF0(t) ==
    /\ pc[t] = "w_f0"
    /\ current_f0' = result[t].f0
    /\ pc' = [pc EXCEPT ![t] = "w_note"]
    /\ UNCHANGED <<sessionVars, audio_buffer, pushed, history, current_note,
                   note_confidence, current_volume, mainVars, nthreads, segment,
                   popsLeft, result, foreign, stopSeen>>

\* self.current_note = ... ; self.current_japanese_note = ...
PublishNote(t) ==
    /\ pc[t] = "w_note"
    /\ current_note' = result[t].note
    /\ pc' = [pc EXCEPT ![t] = "w_conf"]
    /\ UNCHANGED <<sessionVars, audio_buffer, pushed, history, current_f0,
                   note_confidence, current_volume, mainVars, nthreads, segment,
                   popsLeft, result, foreign, stopSeen>>

\* A faulty error path that ends the session when the estimator failed;
\* stands in for PublishConfidence to show that C4 tells them apart.
PublishConfidenceStopsOnError(t) ==
    /\ pc[t] = "w_conf"
    /\ note_confidence' = result[t].conf
    /\ is_running' = (is_running /\ ~result[t].failed)
    /\ pc' = [pc EXCEPT ![t] = "g_time"]
    /\ UNCHANGED <<device_index, stream, stop_event, status, dialogs,
                   audio_buffer, pushed, history, current_f0, current_note,
                   current_volume, mainVars, nthreads, segment, popsLeft, result,
                   foreign, stopSeen>>
\* self.note_confidence = ... ; _analyze_audio_segment returns.
PublishConfidence(t) ==
    /\ pc[t] = "w_conf"
    /\ note_confidence' = result[t].conf
    /\ pc' = [pc EXCEPT ![t] = "g_time"]
    /\ UNCHANGED <<sessionVars, audio_buffer, pushed, history, current_f0,
                   current_note, current_volume, mainVars, nthreads, segment,
                   popsLeft, result, foreign, stopSeen>>

\* self.time_data.append(current_time)
GraphTime(t) ==
    /\ pc[t] = "g_time"
    /\ time_data' = DequeAppendLen(time_data, HISTORY_MAXLEN)
    /\ pc' = [pc EXCEPT ![t] = "g_vol"]
    /\ UNCHANGED <<sessionVars, audio_buffer, pushed, volume_data,
                   frequency_data, analysisState, mainVars, nthreads, segment,
                   popsLeft, result, foreign, stopSeen>>

\* self.volume_data.append(self.current_volume)
GraphVolume(t) ==
    /\ pc[t] = "g_vol"
    /\ volume_data' = DequeAppendLen(volume_data, HISTORY_MAXLEN)
    /\ pc' = [pc EXCEPT ![t] = "g_freq"]
    /\ UNCHANGED <<sessionVars, audio_buffer, pushed, time_data,
                   frequency_data, analysisState, mainVars, nthreads, segment,
                   popsLeft, result, foreign, stopSeen>>

\* self.frequency_data.append(...)
GraphFrequency(t) ==
    /\ pc[t] = "g_freq"
    /\ frequency_data' = DequeAppendLen(frequency_data, HISTORY_MAXLEN)
    /\ pc' = [pc EXCEPT ![t] = "sleep"]
    /\ UNCHANGED <<sessionVars, audio_buffer, pushed, time_data, volume_data,
                   analysisState, mainVars, nthreads, segment, popsLeft, result,
                   foreign, stopSeen>>

\* time.sleep(0.01), then the while condition again.
Sleep(t) ==
    /\ pc[t] = "sleep"
    /\ pc' = [pc EXCEPT ![t] = "cond"]
    /\ UNCHANGED <<sessionVars, audio_buffer, pushed, history, analysisState,
                   mainVars, nthreads, segment, popsLeft, result, foreign,
                   stopSeen>>

\* ---------------------------------------------------- specification
Next ==
    \/ \E size \in BlockSizes, rms \in BlockRms : AudioCallback(size, rms)
    \/ StartAnalysis
    \/ StartRun
    \/ StartReset
    \/ StartThreads
    \/ StopAnalysis
    \/ StopStream
    \/ \E t \in Threads : LoopCond(t)
    \/ \E t \in Threads : CheckLen(t)
    \/ \E t \in Threads : Snapshot(t)
    \/ \E t \in Threads : DiscardBegin(t)
    \/ \E t \in Threads : DiscardOne(t)
    \/ \E t \in Threads : AnalyzeSegment(t)
    \/ \E t \in Threads : PublishF0(t)
    \/ \E t \in Threads : PublishNote(t)
    \/ \E t \in Threads : PublishConfidence(t)
    \/ \E t \in Threads : GraphTime(t)
    \/ \E t \in Threads : GraphVolume(t)
    \/ \E t \in Threads : GraphFrequency(t)
    \/ \E t \in Threads : Sleep(t)

Spec == Init /\ [][Next]_vars

\* The interpreter schedules every thread that can run: each analysis
\* thread and the main thread inside start_analysis / stop_analysis keep
\* taking steps.  The stream need not deliver and the user need not call.
ThreadStep(t) ==
    \/ LoopCond(t) \/ CheckLen(t) \/ Snapshot(t) \/ DiscardBegin(t)
    \/ DiscardOne(t) \/ AnalyzeSegment(t) \/ PublishF0(t) \/ PublishNote(t)
    \/ PublishConfidence(t) \/ GraphTime(t) \/ GraphVolume(t)
    \/ GraphFrequency(t) \/ Sleep(t)
MainStep == StartRun \/ StartReset \/ StartThreads \/ StopStream
\* One session: a start and a stop at most.
FairInit == Init /\ budget.calls = 1 + 1
FairSpec ==
    /\ FairInit
    /\ [][Next]_vars
    /\ \A t \in Threads : WF_vars(ThreadStep(t))
    /\ WF_vars(MainStep)

\* ------------------------------------------------- presentation read
\* _update_gui_elements, run by the Tk main loop between its other
\* handlers while the session runs: the labels are filled from the
\* analysis state (taken here as read in one step).
UpdateGuiElements ==
    /\ mainpc = "idle"
    /\ is_running
    /\ call' = [fn |-> "_update_gui_elements", returned |-> TRUE,
                ret |-> [f0 |-> current_f0, note |-> current_note,
                         conf |-> note_confidence]]
    /\ UNCHANGED <<progVars, mainpc, calls, budget, lastCall, foreign, stopSeen>>

\* _update_graph, run by the animation timer on the Tk main loop: it
\* returns at once unless the session runs and the time series is not
\* empty, and else copies the three series (taken here as copied in one
\* step; a series is modelled by its length).
UpdateGraph ==
    /\ mainpc = "idle"
    /\ is_running
    /\ time_data # 0
    /\ call' = [fn |-> "_update_graph", returned |-> TRUE,
                ret |-> [times |-> time_data, volumes |-> volume_data,
                         frequencies |-> frequency_data]]
    /\ UNCHANGED <<progVars, mainpc, calls, budget, lastCall, foreign, stopSeen>>

\* One session with the presentation reading along.
GuiInit == Init /\ budget.calls = 1 + 1
GuiNext == Next \/ UpdateGuiElements \/ UpdateGraph
GuiSpec == GuiInit /\ [][GuiNext]_vars

\* ------------------------------------------------ GUI-update threads
\* while not self._stop_event.is_set()
GuiLoopCond(g) ==
    /\ pc[g] = "gcond"
    /\ pc' = [pc EXCEPT ![g] = IF ~stop_event THEN "grun" ELSE "done"]
    /\ UNCHANGED <<sessionVars, audio_buffer, pushed, history, analysisState,
                   mainVars, nthreads, segment, popsLeft, result, foreign,
                   stopSeen>>

\* if self.is_running
GuiCheckRunning(g) ==
    /\ pc[g] = "grun"
    /\ pc' = [pc EXCEPT ![g] = IF is_running THEN "gafter" ELSE "gsleep"]
    /\ UNCHANGED <<sessionVars, audio_buffer, pushed, history, analysisState,
                   mainVars, nthreads, segment, popsLeft, result, foreign,
                   stopSeen>>

\* self.master.after(0, self._update_gui_elements): a display update is
\* scheduled.
GuiSchedule(g) ==
    /\ pc[g] = "gafter"
    /\ pc' = [pc EXCEPT ![g] = "gsleep"]
    /\ UNCHANGED <<sessionVars, audio_buffer, pushed, history, analysisState,
                   mainVars, nthreads, segment, popsLeft, result, foreign,
                   stopSeen>>

\* time.sleep(0.05), then the while condition again.
GuiSleep(g) ==
    /\ pc[g] = "gsleep"
    /\ pc' = [pc EXCEPT ![g] = "gcond"]
    /\ UNCHANGED <<sessionVars, audio_buffer, pushed, history, analysisState,
                   mainVars, nthreads, segment, popsLeft, result, foreign,
                   stopSeen>>

GuiStep(g) ==
    GuiLoopCond(g) \/ GuiCheckRunning(g) \/ GuiSchedule(g) \/ GuiSleep(g)

\* Restarted sessions with both worker threads of each taking their
\* steps; every thread that can run is scheduled.
WorkerInit == Init /\ budget.calls = MaxCalls
WorkerNext == Next \/ \E g \in GuiThreads : GuiStep(g)
WorkerSpec ==
    /\ WorkerInit
    /\ [][WorkerNext]_vars
    /\ \A t \in Threads : WF_vars(ThreadStep(t))
    /\ \A g \in GuiThreads : WF_vars(GuiStep(g))
    /\ WF_vars(MainStep)

\* ---------------------------------------------------- device choice
\* The combobox is disabled by start_analysis together with the label
\* "Analyzing..." and made readonly again together with the labels
\* "Stopped" and "Start failed"; it is created readonly.
ComboboxDisabled == status = "Analyzing..."
\* The entries of the combobox: the device selected at start-up and a
\* second input device.
ComboboxValues == Devices \cup {"1"}

\* A faulty handler that also runs while the combobox is disabled; stands
\* in for OnDeviceSelected to show that C31 tells them apart.
OnDeviceSelectedAnyTime(d) ==
    /\ mainpc = "idle"
    /\ device_index' = d
    /\ status' = "Ready"
    /\ UNCHANGED <<stream, is_running, stop_event, dialogs, audio_buffer, pushed,
                   history, analysisState, mainVars, threadVars, foreign>>
\* _on_device_selected, run by the Tk main loop when the user picks an
\* entry of the combobox, which a disabled combobox does not allow.
OnDeviceSelected(d) ==
    /\ mainpc = "idle"
    /\ ~ComboboxDisabled
    /\ device_index' = d
    /\ status' = "Ready"
    /\ UNCHANGED <<stream, is_running, stop_event, dialogs, audio_buffer, pushed,
                   history, analysisState, mainVars, threadVars, foreign>>

\* One session of an analyzer that found two input devices and
\* selected the first.
DeviceInit == Init /\ device_index \in Devices /\ budget.calls = 1 + 1
DeviceNext == Next \/ \E d \in ComboboxValues : OnDeviceSelected(d)
DeviceSpec == DeviceInit /\ [][DeviceNext]_vars

\* ------------------------------------------- functions examined alone
\* Note data the mapper is examined with: the fallback table, an empty
\* table, a table with equidistant and duplicate frequencies, and data
\* without a usable "note_frequencies" mapping.
EmptyNoteTable == [wellformed |-> TRUE, note_frequencies |-> <<>>]
TieNoteTable ==
    [wellformed |-> TRUE,
     note_frequencies |->
        << [western |-> "G4", frequency |-> 400 * Hz],
           [western |-> "A4", frequency |-> 440 * Hz],
           [western |-> "A4b", frequency |-> 440 * Hz],
           [western |-> "B4", frequency |-> 480 * Hz] >>]
MalformedNoteData == [wellformed |-> FALSE, note_frequencies |-> <<>>]
\* The seven notes of the fallback table together with an entry that has
\* no "frequency".
MixedNoteData ==
    [wellformed |-> FALSE, note_frequencies |-> DefaultNoteTable.note_frequencies]
NoteTables ==
    {DefaultNoteTable, EmptyNoteTable, TieNoteTable, MalformedNoteData,
     MixedNoteData}

\* A table with an entry whose frequency is 0.
NonPositiveNoteTable ==
    [wellformed |-> TRUE,
     note_frequencies |->
        << [western |-> "A4", frequency |-> 440 * Hz],
           [western |-> "X0", frequency |-> 0] >>]
\* note_frequencies.json: `parses` tells whether open and json.load
\* succeed, `content` is what json.load returns then.
NoteFiles ==
    {[parses |-> FALSE, content |-> MalformedNoteData]}
    \cup {[parses |-> TRUE, content |-> d] :
              d \in NoteTables \cup {NonPositiveNoteTable}}
\* load_note_frequencies: the content of the file, or the fallback table
\* when open or json.load raised.
load_note_frequencies(file) ==
    IF file.parses THEN file.content ELSE DefaultNoteTable

\* device_config.json as json.load returns it: `wellformed` tells whether
\* it has the "device_settings" mapping.
DefaultDeviceConfig ==
    [wellformed |-> TRUE, last_used_device_index |-> None,
     last_used_device_name |-> "", auto_select_last_device |-> TRUE]
SavedDeviceConfigs ==
    {[wellformed |-> w, last_used_device_index |-> i,
      last_used_device_name |-> "Mic", auto_select_last_device |-> TRUE] :
        w \in BOOLEAN, i \in {"0", "1", "7"}}
\* The file is absent, corrupt (not JSON) or parsed.
DeviceConfigFiles ==
    {[state |-> st, content |-> DefaultDeviceConfig] : st \in {"absent", "corrupt"}}
    \cup {[state |-> "parsed", content |-> c] :
              c \in SavedDeviceConfigs \cup {DefaultDeviceConfig}}
\* A faulty loader that falls back only when the file is absent and
\* hands on what it could not parse; stands in for load_device_config to
\* show that C24 tells them apart.
load_device_config_absent_only(file) ==
    IF file.state = "absent" THEN DefaultDeviceConfig
    ELSE IF file.state = "corrupt"
         THEN [DefaultDeviceConfig EXCEPT !.wellformed = FALSE]
         ELSE file.content
\* load_device_config: the content of the file, or the default record
\* when open or json.load raised.
load_device_config(file) ==
    IF file.state = "parsed" THEN file.content ELSE DefaultDeviceConfig

\* What sd.query_devices() yields: an error, or the indices of the input
\* devices in enumeration order.
DeviceScans ==
    {[raised |-> TRUE, inputs |-> <<>>]}
    \cup {[raised |-> FALSE, inputs |-> d] : d \in {<<>>, <<"0">>, <<"1", "0">>}}
\* _populate_devices: the device selected at start-up and the text of
\* the connection label (created as "Ready").
populate_devices(device_config, scan) ==
    IF scan.raised
    THEN [device_index |-> None, label |-> "Device scan failed"]
    ELSE IF scan.inputs = <<>>
    THEN [device_index |-> None, label |-> "No input devices found"]
    ELSE IF ~device_config.wellformed
    THEN [device_index |-> None, label |-> "Device scan failed"]
    ELSE LET last == device_config.last_used_device_index
         IN  IF last # None /\ \E i \in 1..Len(scan.inputs) : scan.inputs[i] = last
             THEN [device_index |-> last, label |-> "Ready"]
             ELSE [device_index |-> scan.inputs[1], label |-> "Ready"]

\* Frequencies the mapper is examined with (440.01 Hz is 440 * Hz + 2).
Frequencies ==
    {0 - Hz, 0, 2, 74 * Hz, 400 * Hz, 419 * Hz, 420 * Hz, 421 * Hz, 430 * Hz,
     436 * Hz, 440 * Hz, 440 * Hz + 2, 444 * Hz, 450 * Hz, 460 * Hz, 466 * Hz,
     470 * Hz, 480 * Hz, 484 * Hz, 520 * Hz, 528 * Hz, 1200 * Hz, 2000 * Hz}

\* Sub-frame estimates of pyin: a frequency (0 where pyin found no pitch)
\* and a voicing probability at, just above and well above the threshold.
FrameF0s ==
    {0, BAND_LOW * Hz - 2, BAND_LOW * Hz, 440 * Hz, 466 * Hz, BAND_HIGH * Hz,
     BAND_HIGH * Hz + 2}
FrameProbs == {PYIN_PROB_THRESHOLD, PYIN_PROB_THRESHOLD + 1}
Frames == [f0 : FrameF0s, prob : FrameProbs]
RECURSIVE FrameSeqs(_)
FrameSeqs(n) ==
    IF n = 0 THEN {<<>>}
    ELSE FrameSeqs(n - 1)
         \cup {Append(s, f) : s \in {q \in FrameSeqs(n - 1) : Len(q) = n - 1},
                              f \in Frames}
EstimatorOutcomes ==
    {PyinRaised} \cup {[raised |-> FALSE, frames |-> s] : s \in FrameSeqs(MaxFrames)}

\* RMS of a delivered block before gain, in units of 1/10000.
RmsValues ==
    {0, 9, 10, 19, 100, 149, 150, 155, 200, 205, 500, 990, 999, 1000, 1001,
     5000, 10000}

\* The calls examined: each function with each of its inputs.
FunctionCalls ==
    {[fn |-> "frequency_to_note", returned |-> FALSE, frequency |-> f,
      note_data |-> d] : f \in Frequencies, d \in NoteTables}
    \cup {[fn |-> "_analyze_audio_segment", returned |-> FALSE, outcome |-> o,
           note_data |-> d] : o \in EstimatorOutcomes, d \in NoteTables}
    \cup {[fn |-> "audio_callback", returned |-> FALSE, rms |-> r] :
              r \in RmsValues}
    \cup {[fn |-> "load_note_frequencies", returned |-> FALSE, file |-> f] :
              f \in NoteFiles}
    \cup {[fn |-> "__init__", returned |-> FALSE, file |-> f, scan |-> d] :
              f \in DeviceConfigFiles, d \in DeviceScans}

FunctionInit ==
    /\ InitProgram
    /\ device_index = None
    /\ budget.calls = MaxCalls
    /\ call \in FunctionCalls

\* frequency_to_note(frequency, note_data) returns (or raises).
ApplyFrequencyToNote ==
    /\ call.fn = "frequency_to_note"
    /\ ~call.returned
    /\ call' = [fn |-> call.fn, returned |-> TRUE, frequency |-> call.frequency,
                note_data |-> call.note_data,
                ret |-> frequency_to_note(call.frequency, call.note_data)]
    /\ UNCHANGED <<progVars, mainpc, calls, budget, lastCall, foreign, stopSeen>>

\* _analyze_audio_segment runs to its end: it has stored f0, note and
\* confidence.
ApplyAnalyze ==
    /\ call.fn = "_analyze_audio_segment"
    /\ ~call.returned
    /\ LET ret == Analyze(call.outcome, call.note_data)
       IN  /\ call' = [fn |-> call.fn, returned |-> TRUE, outcome |-> call.outcome,
                       note_data |-> call.note_data, ret |-> ret]
           /\ current_f0' = ret.f0
           /\ current_note' = ret.note
           /\ note_confidence' = ret.conf
    /\ UNCHANGED <<sessionVars, audio_buffer, pushed, history, current_volume,
                   mainpc, calls, budget, lastCall, threadVars, foreign>>

\* audio_callback's volume computation on a block of the given RMS.
ApplyVolume ==
    /\ call.fn = "audio_callback"
    /\ ~call.returned
    /\ call' = [fn |-> call.fn, returned |-> TRUE, rms |-> call.rms,
                ret |-> Volume(call.rms)]
    /\ current_volume' = Volume(call.rms)
    /\ UNCHANGED <<sessionVars, audio_buffer, pushed, history, current_f0,
                   current_note, note_confidence, mainpc, calls, budget, lastCall,
                   threadVars, foreign>>

\* self.note_data = load_note_frequencies()
ApplyLoadNoteFrequencies ==
    /\ call.fn = "load_note_frequencies"
    /\ ~call.returned
    /\ call' = [fn |-> call.fn, returned |-> TRUE, file |-> call.file,
                ret |-> load_note_frequencies(call.file)]
    /\ UNCHANGED <<progVars, mainpc, calls, budget, lastCall, foreign, stopSeen>>

\* __init__: self.device_config = load_device_config(), then
\* _populate_devices selects the start-up device.
ApplyInit ==
    /\ call.fn = "__init__"
    /\ ~call.returned
    /\ LET device_config == load_device_config(call.file)
           selected == populate_devices(device_config, call.scan)
       IN  /\ call' = [fn |-> call.fn, returned |-> TRUE, file |-> call.file,
                       scan |-> call.scan,
                       ret |-> device_config]
           /\ device_index' = selected.device_index
           /\ status' = selected.label
    /\ UNCHANGED <<stream, is_running, stop_event, dialogs, audio_buffer,
                   pushed, history, analysisState, mainpc, calls, budget, lastCall,
                   threadVars, foreign>>

FunctionNext ==
    \/ ApplyFrequencyToNote
    \/ ApplyAnalyze
    \/ ApplyVolume
    \/ ApplyLoadNoteFrequencies
    \/ ApplyInit

FunctionSpec == FunctionInit /\ [][FunctionNext]_vars

\* ------------------------------------------------------- properties
StartCall == calls' = calls + 1 /\ lastCall' \in {"start_ignored", "start", "start_failed"}
StopCall == calls' = calls + 1 /\ lastCall' \in {"stop_ignored", "stop"}
TookWindow(t) == pc[t] = "snap" /\ pc'[t] = "popn"

\* C1: after any pushes and discards the sample buffer never holds more
\* than CAPACITY samples, and what it holds are the newest delivered
\* samples in arrival order (the oldest are the ones evicted).
C1_BufferBoundedNewest ==
    /\ Len(audio_buffer) <= CAPACITY
    /\ \A i \in 1..Len(audio_buffer) :
          audio_buffer[i] = pushed - Len(audio_buffer) + i

\* C1 witness: a loop has taken a window and finished its discard, and the
\* buffer has overflowed and is full, so samples were evicted.
C1_Witness ==
    /\ pushed > CAPACITY
    /\ Len(audio_buffer) = CAPACITY
    /\ \E t \in Threads : segment[t] # <<>> /\ pc[t] = "analyze"

\* C2: every window handed to the pitch estimator holds exactly
\* FRAME_LENGTH samples.
C2_WindowIsFrame ==
    \A t \in Threads : pc[t] = "analyze" => Len(segment[t]) = FRAME_LENGTH

\* C3 as stated: a loop's consecutive windows always start HOP_LENGTH
\* samples apart.
C3_ExactHopAlways ==
    [][\A t \in Threads :
          (TookWindow(t) /\ segment[t] # <<>> /\ segment'[t] # <<>>)
          => Head(segment'[t]) = Head(segment[t]) + HOP_LENGTH]_vars

\* C3 amended: after a full window, a loop's next window starts at least
\* HOP_LENGTH samples later, and exactly HOP_LENGTH later (overlapping the
\* previous window by FRAME_LENGTH - HOP_LENGTH samples) whenever nothing
\* but the loop's own discard took samples out of the buffer in between.
C3_HopUnlessRemoved ==
    [][\A t \in Threads :
          (TookWindow(t) /\ Len(segment[t]) = FRAME_LENGTH /\ segment'[t] # <<>>)
          => /\ Head(segment'[t]) >= Head(segment[t]) + HOP_LENGTH
             /\ ~foreign[t] =>
                   /\ Head(segment'[t]) = Head(segment[t]) + HOP_LENGTH
                   /\ Len(segment'[t]) = FRAME_LENGTH
                   /\ SubSeq(segment'[t], 1, FRAME_LENGTH - HOP_LENGTH)
                        = SubSeq(segment[t], HOP_LENGTH + 1, FRAME_LENGTH)]_vars

\* C3 witness: in a first session whose buffer has not overflowed, a loop
\* holds its second window, which starts HOP_LENGTH after the first.
C3_Witness ==
    /\ calls = 1
    /\ pushed <= CAPACITY
    /\ \E t \in Threads :
          /\ pc[t] = "popn"
          /\ Len(segment[t]) = FRAME_LENGTH
          /\ Head(segment[t]) = HOP_LENGTH + 1

\* C4: a failure of the pitch algorithm on a window is recovered: every
\* store of that cycle publishes the unvoiced value, none of them touches
\* the session (is_running, the stop event, the stream), and the loop
\* moves on to its next statement instead of ending.
C4_FailureRecovered ==
    [][\A t \in Threads :
          (result[t].failed /\ pc'[t] # pc[t])
          => /\ pc[t] = "w_f0" => current_f0' = 0 /\ pc'[t] = "w_note"
             /\ pc[t] = "w_note" => current_note' = NA /\ pc'[t] = "w_conf"
             /\ pc[t] = "w_conf" => note_confidence'.num = 0 /\ pc'[t] = "g_time"
             /\ pc[t] \in {"w_f0", "w_note", "w_conf"}
                   => UNCHANGED <<is_running, stop_event, stream>>]_vars

\* C4 witness: in a running first session a loop whose previous window
\* failed is handing a later full window to the estimator.
C4_Witness ==
    /\ calls = 1
    /\ is_running
    /\ \E t \in Threads :
          /\ result[t].failed
          /\ pc[t] = "analyze"
          /\ Len(segment[t]) = FRAME_LENGTH

\* C5: a call of start_analysis while the session runs changes nothing:
\* no stream is opened, no thread is started, buffer, history and
\* AnalysisState stay as they are.
C5_StartWhileRunningNoOp ==
    [][(StartCall /\ is_running) => UNCHANGED <<progVars, mainpc>>]_vars

\* C5 witness: start_analysis has just been called on a running session.
C5_Witness == lastCall = "start_ignored" /\ is_running /\ nthreads = 1

\* C6: a call of stop_analysis while the session is idle changes nothing.
C6_StopWhileIdleNoOp ==
    [][(StopCall /\ ~is_running) => UNCHANGED <<progVars, mainpc>>]_vars

\* C6 witness: stop_analysis has just been called a second time in a row.
C6_Witness == lastCall = "stop_ignored" /\ status = "Stopped"

C8_StartResetsState ==
    [][(mainpc = "start_reset" /\ mainpc' = "start_threads"
            /\ \A t \in Threads : ~Alive(t))
          => /\ audio_buffer' = <<>>
             /\ time_data' = 0 /\ volume_data' = 0 /\ frequency_data' = 0
             /\ current_f0' = 0
             /\ current_note' = NA
             /\ note_confidence'.num = 0]_vars

\* C9: once stop_analysis has closed the stream, the published
\* AnalysisState stays as it is until the next start.
C9_StopKeepsState ==
    [][(status = "Stopped" /\ stream = "none" /\ mainpc = "idle" /\ mainpc' = "idle")
          => UNCHANGED analysisState]_vars

\* C10: a loop that was running when stop_analysis was called ends the
\* next time it evaluates its while condition.
C10_LoopExitsAfterStop ==
    [][\A t \in Threads :
          (stopSeen[t] /\ pc[t] = "cond" /\ pc'[t] # "cond") => pc'[t] = "done"]_vars

\* C11: the audio stream is closed only when no analysis loop is alive.
C11_StreamClosedAfterJoin ==
    [][(stream # "none" /\ stream' = "none")
          => \A t \in Threads : ~Alive(t)]_vars

\* A loop has just published the result of a window.
Published == \E t \in Threads : pc[t] = "g_time"

EstimatorReturned ==
    /\ call.fn = "_analyze_audio_segment"
    /\ call.returned
    /\ ~call.outcome.raised
Voiced(frame) == frame.prob > PYIN_PROB_THRESHOLD
Survivors == SelectSeq(call.outcome.frames, Voiced)

\* C13: the estimator's result depends only on the sub-frames whose
\* voicing probability exceeds 0.5 (the others are discarded), and when
\* none is left the result is unvoiced: f0 0, note N/A, confidence 0, and
\* no error.
C13_VoicingFilter ==
    EstimatorReturned
    => /\ call.ret = Analyze([raised |-> FALSE, frames |-> Survivors], call.note_data)
       /\ Survivors = <<>>
             => /\ call.ret.f0 = 0
                /\ call.ret.note = NA
                /\ call.ret.conf.num = 0
                /\ ~call.ret.failed

\* C13 witness: a window whose only pitched sub-frame (440 Hz) has a
\* probability of exactly 0.5 has been reported unvoiced.
C13_Witness ==
    /\ EstimatorReturned
    /\ Len(call.outcome.frames) >= 2
    /\ Survivors = <<>>
    /\ \E i \in 1..Len(call.outcome.frames) :
          /\ call.outcome.frames[i].f0 = 440 * Hz
          /\ call.outcome.frames[i].prob = PYIN_PROB_THRESHOLD
    /\ call.ret.f0 = 0

SurvivorF0s == [i \in 1..Len(Survivors) |-> Survivors[i].f0]
\* x is the k-th smallest element of the sequence s.
KthSmallest(x, s, k) ==
    /\ \E i \in 1..Len(s) : s[i] = x
    /\ Cardinality({i \in 1..Len(s) : s[i] < x}) < k
    /\ k <= Cardinality({i \in 1..Len(s) : s[i] <= x})
\* The medians of the non-empty sequence s: its middle element, or the
\* mean of its two middle elements.
Medians(s) ==
    LET n == Len(s)
        elements == {s[i] : i \in 1..n}
    IN  IF n % 2 = 1
        THEN {m \in elements : KthSmallest(m, s, (n + 1) \div 2)}
        ELSE {(a + b) \div 2 : a \in {x \in elements : KthSmallest(x, s, n \div 2)},
                               b \in {x \in elements : KthSmallest(x, s, n \div 2 + 1)}}

\* C14: when at least one sub-frame survives the voicing filter, the
\* aggregate the estimator goes on with is the median of the surviving
\* frequencies: an aggregate inside the band is the reported f0.
C14_MedianOfSurvivors ==
    (EstimatorReturned /\ Survivors # <<>> /\ call.note_data.wellformed)
    => /\ Cardinality(Medians(SurvivorF0s)) = 1
       /\ \A m \in Medians(SurvivorF0s) :
             call.ret.f0 = IF InBand(m) THEN m ELSE 0

\* C14 witness: three surviving sub-frames of 440, 440 and 466 Hz, whose
\* mean is not their median, have been reported as 440 Hz.
C14_Witness ==
    /\ EstimatorReturned
    /\ Len(Survivors) = 3
    /\ \E i \in 1..3 : Survivors[i].f0 = 466 * Hz
    /\ Cardinality({i \in 1..3 : Survivors[i].f0 = 440 * Hz}) = 2
    /\ call.ret.f0 = 440 * Hz

\* C15: an aggregate below 75 Hz or above 1200 Hz is rejected (f0 0, note
\* N/A, confidence 0 are reported), and an aggregate from 75 Hz to 1200 Hz
\* is reported as the f0 unchanged.
C15_BandCheck ==
    (EstimatorReturned /\ Survivors # <<>>)
    => LET aggregate == Median(SurvivorF0s)
       IN  /\ (aggregate < BAND_LOW * Hz \/ aggregate > BAND_HIGH * Hz)
                => /\ call.ret.f0 = 0
                   /\ call.ret.note = NA
                   /\ call.ret.conf.num = 0
                   /\ ~call.ret.failed
           /\ (BAND_LOW * Hz <= aggregate /\ aggregate <= BAND_HIGH * Hz
                  /\ call.note_data.wellformed)
                => call.ret.f0 = aggregate

\* C15 witness: an aggregate of 1200.01 Hz has been rejected.
C15_Witness ==
    /\ EstimatorReturned
    /\ Len(Survivors) = 1
    /\ Survivors[1].f0 = BAND_HIGH * Hz + 2
    /\ call.ret.f0 = 0
    /\ call.ret.note = NA

MapperReturned == call.fn = "frequency_to_note" /\ call.returned

\* C16: for a frequency above 0 and a readable, non-empty table the mapper
\* returns the entry at the smallest distance from the frequency, and of
\* several entries at that distance the first in the table's order.
C16_NearestFirst ==
    (MapperReturned /\ call.frequency > 0 /\ call.note_data.wellformed
        /\ call.note_data.note_frequencies # <<>>)
    => LET entries == call.note_data.note_frequencies
           dist(j) == Abs(entries[j].frequency - call.frequency)
       IN  /\ ~call.ret.raised
           /\ \E i \in 1..Len(entries) :
                 /\ call.ret.note = entries[i].western
                 /\ call.ret.freq = entries[i].frequency
                 /\ \A j \in 1..Len(entries) : dist(j) >= dist(i)
                 /\ \A j \in 1..(i - 1) : dist(j) > dist(i)

\* C16 witness: 420 Hz, equally far from the table's G4 (400 Hz) and A4
\* (440 Hz), has been mapped to G4, the earlier entry.
C16_Witness ==
    /\ MapperReturned
    /\ call.frequency = 420 * Hz
    /\ call.note_data = TieNoteTable
    /\ call.ret.note = "G4"

\* C17: for an aggregate inside the band and a readable table the reported
\* confidence is max(0, 100 - |f0 - closest| / closest * 100 * K) clamped
\* to 0..100 (0 when the table is empty); 440 Hz against the fallback
\* table is reported as A4 with confidence exactly 100.
C17_ConfidenceFormula ==
    (EstimatorReturned /\ Survivors # <<>> /\ call.note_data.wellformed
        /\ InBand(Median(SurvivorF0s)))
    => LET f0 == Median(SurvivorF0s)
           closest == frequency_to_note(f0, call.note_data).freq
           linear == 100 * closest - Abs(f0 - closest) * 100 * CONFIDENCE_K
           clamped == Min(100 * closest, Max(0, linear))
       IN  /\ closest > 0
                => call.ret.conf.num = clamped /\ call.ret.conf.den = closest
           /\ closest = 0 => call.ret.conf.num = 0
           /\ 0 <= call.ret.conf.num
           /\ call.ret.conf.num <= 100 * call.ret.conf.den
           /\ (f0 = 440 * Hz /\ call.note_data = DefaultNoteTable)
                => /\ call.ret.note = "A4"
                   /\ call.ret.conf.num = 100 * call.ret.conf.den

\* C17 witness: a window of 440 Hz has been reported against the fallback
\* table as A4 with confidence 100.
C17_Witness ==
    /\ EstimatorReturned
    /\ Len(Survivors) = 1
    /\ Survivors[1].f0 = 440 * Hz
    /\ call.note_data = DefaultNoteTable
    /\ call.ret.note = "A4"
    /\ call.ret.conf.num = 100 * call.ret.conf.den

\* What the estimator reports for a window whose single sub-frame is
\* voiced at the given frequency.
ReportOf(frequency, note_data) ==
    Analyze([raised |-> FALSE,
             frames |-> << [f0 |-> frequency, prob |-> PYIN_PROB_THRESHOLD + 1] >>],
            note_data)

\* C18: a reported f0 that differs from its nearest entry has a confidence
\* below 100, and no frequency with the same nearest entry that lies at
\* least as far from it has a higher confidence.
C18_ConfidenceMonotone ==
    (EstimatorReturned /\ Survivors # <<>> /\ call.note_data.wellformed
        /\ call.ret.f0 > 0)
    => LET f0 == call.ret.f0
           nearest == frequency_to_note(f0, call.note_data)
       IN  nearest.freq > 0
           => /\ f0 # nearest.freq => call.ret.conf.num < 100 * call.ret.conf.den
              /\ \A g \in Frequencies :
                    (InBand(g)
                       /\ frequency_to_note(g, call.note_data) = nearest
                       /\ Abs(g - nearest.freq) >= Abs(f0 - nearest.freq))
                    => /\ ReportOf(g, call.note_data).conf.den = call.ret.conf.den
                       /\ ReportOf(g, call.note_data).conf.num <= call.ret.conf.num

\* C18 witness: 466 Hz has been reported against the fallback table as A4
\* with a confidence above 0 and below 100.
C18_Witness ==
    /\ EstimatorReturned
    /\ call.note_data = DefaultNoteTable
    /\ call.ret.f0 = 466 * Hz
    /\ call.ret.note = "A4"
    /\ call.ret.conf.num > 0
    /\ call.ret.conf.num < 100 * call.ret.conf.den

\* C19: for a frequency of 0 or below the mapper returns "no note" (N/A,
\* closest frequency 0, hence confidence 0) whatever the note data is,
\* empty or unreadable data included, and does not raise.
C19_NoNoteWithoutTable ==
    (MapperReturned /\ call.frequency <= 0)
    => /\ ~call.ret.raised
       /\ call.ret.note = NA
       /\ call.ret.freq = 0
       /\ NoteConfidence(call.frequency, call.ret.freq).num = 0

\* C19 witness: the mapper has returned for a frequency below 0 and note
\* data that cannot be read.
C19_Witness ==
    /\ MapperReturned
    /\ call.frequency < 0
    /\ call.note_data = MalformedNoteData
    /\ ~call.ret.raised
    /\ call.ret.note = NA

VolumeReturned == call.fn = "audio_callback" /\ call.returned
\* The scale of the first version of the analyzer (rms * 200).
SCALE_200 == 200
\* min(100, round(rms * 200)) for an RMS in units of 1/10000.
VolumeAtScale200(rms) == Min(100, (rms * SCALE_200 + 5000) \div 10000)

\* C20 as stated: the published volume is min(100, round(rms * 200)) of
\* the block's RMS, taken before or after the gain.
C20_VolumeScale200 ==
    VolumeReturned
    => \/ call.ret = VolumeAtScale200(call.rms)
       \/ call.ret = VolumeAtScale200(call.rms * GAIN_MULTIPLIER)

\* C20 amended: the published volume is the RMS of the block after the
\* gain of 10, times 100, truncated to a whole percent and capped at 100.
C20_VolumeTruncated ==
    VolumeReturned
    => LET percent == call.rms * GAIN_MULTIPLIER * 100
       IN  /\ call.ret \in 0..100
           /\ call.ret < 100
                 => /\ call.ret * 10000 <= percent
                    /\ percent < (call.ret + 1) * 10000
           /\ call.ret = 100 => percent >= 100 * 10000

\* C20 witness: a block whose RMS after the gain is 0.155 has been
\* published as 15 percent.
C20_Witness ==
    /\ VolumeReturned
    /\ call.rms * GAIN_MULTIPLIER = 1550
    /\ call.ret = 15

\* C21: the published values stay in their ranges: the volume is a whole
\* number from 0 to 100, the f0 is not negative, the confidence lies
\* between 0 and 100.
C21_StateInRange ==
    /\ current_volume \in 0..100
    /\ current_f0 >= 0
    /\ note_confidence.den > 0
    /\ 0 <= note_confidence.num
    /\ note_confidence.num <= 100 * note_confidence.den

\* C21 witness: a block loud enough for the cap (raw RMS 0.5) has been
\* published as volume 100.
C21_Witness ==
    /\ VolumeReturned
    /\ call.rms = 5000
    /\ current_volume = 100

LoadReturned == call.fn = "load_note_frequencies" /\ call.returned

\* C22: the note table a session uses (what load_note_frequencies
\* returned) is never empty and holds only frequencies above 0, the
\* fallback table of C4..B4 standing in for a file that cannot be loaded
\* or is invalid.
C22_TableNeverEmpty ==
    LoadReturned
    => /\ call.ret.wellformed
       /\ call.ret.note_frequencies # <<>>
       /\ \A i \in 1..Len(call.ret.note_frequencies) :
             call.ret.note_frequencies[i].frequency > 0
       /\ ~call.file.parses => call.ret = DefaultNoteTable

\* C23: with note data that mixes valid entries and an entry without a
\* frequency, an aggregate inside the band is reported with the nearest of
\* the valid entries as its note.
C23_MalformedEntrySkipped ==
    (EstimatorReturned /\ Survivors # <<>> /\ InBand(Median(SurvivorF0s))
        /\ ~call.note_data.wellformed
        /\ call.note_data.note_frequencies # <<>>)
    => LET f0 == Median(SurvivorF0s)
           valid == call.note_data.note_frequencies
       IN  /\ ~call.ret.failed
           /\ call.ret.f0 = f0
           /\ call.ret.note = ScanNotes(valid, f0, Len(valid)).note

InitReturned == call.fn = "__init__" /\ call.returned

C26_PeekDiscardAtomic ==
    [][\A t \in Threads :
          /\ pc[t] \in {"popn", "pop"} => pushed' = pushed
          /\ (pc[t] = "pop" /\ popsLeft'[t] # popsLeft[t])
                => /\ audio_buffer # <<>>
                   /\ audio_buffer' = Tail(audio_buffer)
                   /\ HOP_LENGTH - popsLeft[t] + 1 \in 1..Len(segment[t])
                   /\ Head(audio_buffer) = segment[t][HOP_LENGTH - popsLeft[t] + 1]]_vars

GuiRead == call.fn = "_update_gui_elements" /\ call.returned
\* What one analysis cycle publishes: f0, note and confidence of a single
\* window (the state after construction is that of an unvoiced window).
CycleResults ==
    {[f0 |-> r.f0, note |-> r.note, conf |-> r.conf] :
        r \in {Unvoiced} \cup {Analyze(o, DefaultNoteTable) : o \in PyinOutcomes}}

\* C27: what a presentation read shows is the f0, note and confidence of
\* one analysis cycle, never the f0 of one window together with the note
\* or confidence of another.
C27_ReadOfOneCycle == GuiRead => call.ret \in CycleResults

\* A step of the producer's push (audio_callback's extend).
PushStep == pushed' > pushed
\* A step of the consumer's discard (one popleft of a discard loop).
DiscardStep ==
    \E t \in Threads : pc[t] = "pop" /\ audio_buffer' = Tail(audio_buffer)

\* C28: the sample buffer changes only by a push, by a discard of its
\* oldest sample or by the reset of start_analysis, and the reset runs
\* only while no push and no discard can be under way: the stream is not
\* delivering and no analysis loop is alive.
C28_BufferSingleWriter ==
    [][/\ audio_buffer' # audio_buffer
             => PushStep \/ DiscardStep \/ mainpc = "start_reset"
       /\ (mainpc = "start_reset" /\ mainpc' # mainpc)
             => /\ stream # "active"
                /\ \A t \in Threads : ~Alive(t)]_vars

\* C29 as stated: a loop that has analysed a window while the buffer
\* still holds a frame goes on to the next window without sleeping.
C29_NoSleepWithBacklog ==
    [][\A t \in Threads :
          (pc[t] = "g_freq" /\ pc'[t] # pc[t]
              /\ Len(audio_buffer) >= FRAME_LENGTH /\ LoopContinues)
          => pc'[t] # "sleep"]_vars

\* C29: every iteration of the loop ends with the sleep, after a window
\* as well as without one, and the loop then tests its condition again;
\* an iteration takes a window exactly when the buffer holds at least
\* FRAME_LENGTH samples at its test, so a backlog is worked off one window
\* per iteration.
C29_WindowPerIteration ==
    [][\A t \in Threads :
          /\ (pc[t] = "len" /\ pc'[t] # pc[t])
                => pc'[t] = IF Len(audio_buffer) >= FRAME_LENGTH
                            THEN "snap" ELSE "sleep"
          /\ (pc[t] = "g_freq" /\ pc'[t] # pc[t]) => pc'[t] = "sleep"
          /\ (pc[t] = "sleep" /\ pc'[t] # pc[t]) => pc'[t] = "cond"
          /\ (pc[t] = "cond" /\ pc'[t] # pc[t])
                => pc'[t] = IF is_running /\ ~stop_event THEN "len" ELSE "done"]_vars

\* C29 witness: a loop that has analysed a window has, with exactly one
\* frame in the buffer, passed the test again and is about to take the
\* next window.
C29_Witness ==
    \E t \in Threads :
        /\ pc[t] = "snap"
        /\ frequency_data >= 1
        /\ Len(audio_buffer) = FRAME_LENGTH

\* C30: taking a window leaves the sample buffer as it is: the snapshot
\* is a copy of the oldest FRAME_LENGTH samples, and contents and length
\* of the buffer are the same after the snapshot as before.
C30_SnapshotKeepsBuffer ==
    [][\A t \in Threads :
          TookWindow(t)
          => /\ audio_buffer' = audio_buffer
             /\ segment'[t] = SubSeq(audio_buffer, 1,
                                     Min(Len(audio_buffer), FRAME_LENGTH))]_vars

\* C30 witness: a loop has just taken a full window and the buffer still
\* starts with the samples of that window.
C30_Witness ==
    \E t \in Threads :
        /\ pc[t] = "popn"
        /\ Len(segment[t]) = FRAME_LENGTH
        /\ Len(audio_buffer) >= FRAME_LENGTH
        /\ SubSeq(audio_buffer, 1, FRAME_LENGTH) = segment[t]

\* C31: from the opening of the stream by start_analysis to the end of the
\* next stop_analysis the selected device does not change: device_index
\* keeps the value the stream was opened with.
C31_DeviceFixedWhileRunning ==
    [][(is_running \/ mainpc # "idle") => device_index' = device_index]_vars

\* C31 witness: the user has selected the second device and a session is
\* running on it.
C31_Witness ==
    /\ is_running
    /\ stream = "active"
    /\ status = "Analyzing..."
    /\ mainpc = "idle"
    /\ device_index = "1"

\* C32: a worker thread that is alive when the session has been stopped
\* eventually ends, the analysis thread as well as the GUI-update thread,
\* and a GUI-update thread schedules a display update only while the
\* session runs.
C32_WorkersEndAfterStop ==
    /\ \A t \in Threads \cup GuiThreads :
          (Alive(t) /\ ~is_running /\ stop_event) ~> ~Alive(t)
    /\ [][\A g \in GuiThreads :
             (pc[g] = "gafter" /\ pc'[g] # pc[g]) => is_running]_vars

\* C33: after any sequence of start_analysis and stop_analysis calls at
\* most one analysis loop is active on the sample buffer (created and
\* not yet returned from its while loop).
C33_SingleConsumer ==
    Cardinality({t \in Threads : Alive(t)}) <= 1

\* C34: once start_analysis has failed inside its try block, the session
\* is Idle, no stream is left open and the callback pushes no further
\* samples.
C34_NoStreamAfterFailedStart ==
    [][(lastCall = "start_failed" /\ mainpc = "idle")
          => /\ ~is_running
             /\ stream = "none"
             /\ pushed' = pushed]_vars

\* C35: between the handlers, a running session has an open stream and an
\* idle session has none, and start_analysis opens a stream only when none
\* is open, so that at most one stream is open at any time.
C35_StreamIffRunning ==
    [][/\ mainpc = "idle" => (is_running <=> stream # "none")
       /\ (StartCall /\ lastCall' = "start") => stream = "none"]_vars

CycleCompleted == call.fn = "_analyze_audio_segment" /\ call.returned

\* C36: when _analyze_audio_segment has returned, the published f0 is 0
\* or lies in 75..1200 Hz, and it is 0 exactly when the published note is
\* N/A and the published confidence is 0.
C36_FieldsConsistent ==
    CycleCompleted
    => /\ current_f0 = 0 \/ InBand(current_f0)
       /\ current_f0 = 0 <=> (current_note = NA /\ note_confidence.num = 0)

GraphRead == call.fn = "_update_graph" /\ call.returned

\* C37: the time, volume and frequency series never exceed their maximum
\* length, and the three series a graph update has read have the same
\* length.
C37_HistoryAligned ==
    /\ time_data <= HISTORY_MAXLEN
    /\ volume_data <= HISTORY_MAXLEN
    /\ frequency_data <= HISTORY_MAXLEN
    /\ GraphRead => /\ call.ret.times = call.ret.volumes
                    /\ call.ret.times = call.ret.frequencies

\* The sequence of sample markers is a run of consecutive stream samples
\* in arrival order.
Contiguous(s) == \A i \in 1..(Len(s) - 1) : s[i + 1] = s[i] + 1

\* C38: the sample buffer always holds a run of consecutive samples of
\* the pushed stream in arrival order, without gap, duplicate or
\* reordering, and every window a loop hands to the estimator is a run of
\* FRAME_LENGTH consecutive stream samples.
C38_BufferContiguous ==
    /\ Contiguous(audio_buffer)
    /\ \A t \in Threads :
          pc[t] \in {"popn", "pop", "analyze"}
          => Contiguous(segment[t]) /\ Len(segment[t]) = FRAME_LENGTH

====
